---- MODULE Spec2Model ----
(***************************************************************************)
(* Model of ideas.py: the sqlite-backed idea list, the curses event loop   *)
(* of main() with its move mode, and the add/edit dialog.                  *)
(*                                                                         *)
(* The program has one task that is suspended only in getch().  A state   *)
(* of the model is the program blocked in getch(); a step is the delivery  *)
(* of one key: the branch of the dispatch that handles it, followed by     *)
(* the top of the next loop iteration up to the next getch().  The loop    *)
(* ends by q, or by a curses.error that nothing catches; main's locals     *)
(* then no longer exist and only the table remains.                        *)
(* The terminal is taken to be at least 70 columns wide.                   *)
(***************************************************************************)
EXTENDS Integers, Sequences, FiniteSets, TLC

\* ---------------------------------------------------------------- bounds
MaxId  == 3      \* rows ever inserted (AUTOINCREMENT ids 1..MaxId)
MaxDay == 2      \* calendar days the session spans

\* ---------------------------------------------------------------- inputs
Heights      == {2, 6, 18}                      \* terminal heights: 0, 2 or 8 visible ideas
StartHeights == {18}                            \* terminal height when the program starts
TypedTitles  == {<<>>, <<" ">>, <<"b">>}        \* what get_line_with_esc can return
TypedNotes   == {<<" ", "n", " ">>}             \* what Textbox.edit can return
TypedOrders  == {<<"i">>, <<" ", "D">>, <<"x">>, <<>>}  \* answers to the ordering prompt
ConfirmKeys  == {"y", "n"}

Keys == {"q", "KEY_RESIZE", "KEY_UP", "KEY_DOWN", "o", "a", "KEY_DC",
         "d", "e", " ", "x"}

VARIABLES
    store,              \* rows of table ideas
    nextId,             \* next AUTOINCREMENT id
    today,              \* datetime.date.today()
    max_y,              \* terminal height seen by getmaxyx
    LINES,              \* curses.LINES, set when curses starts and never refreshed
    current_order,      \* 'pos' or 'created_date'
    current_selection,
    moving_idea_index,  \* None or an index
    reorder_list,       \* None or the list being reordered
    scroll_offset,
    ideas,              \* the list the last frame displayed
    txn,                \* None, or the open transaction of update_idea_order:
                        \* the table as conn sees it and the UPDATEs done
    pc                  \* "getch" (line 315), "small" (line 246), "done" (main
                        \* returned after line 395), "crashed" (curses.error),
                        \* "updating" (lines 75-77), "killed"

vars == <<store, nextId, today, max_y, LINES, current_order, current_selection,
          moving_idea_index, reorder_list, scroll_offset, ideas, txn, pc>>

\* Python's None / a value, as a sequence of length 0 / 1.
None    == <<>>
Some(v) == <<v>>
Val(o)  == o[1]

Min(a, b) == IF a < b THEN a ELSE b
Max(a, b) == IF a > b THEN a ELSE b

\* ---------------------------------------------------------------- strings
IsSpace(c) == c = " "

RECURSIVE LStrip(_)
LStrip(s) == IF s # <<>> /\ IsSpace(Head(s)) THEN LStrip(Tail(s)) ELSE s

RECURSIVE RStrip(_)
RStrip(s) == IF s # <<>> /\ IsSpace(s[Len(s)])
             THEN RStrip(SubSeq(s, 1, Len(s) - 1)) ELSE s

\* str.strip()
Strip(s) == RStrip(LStrip(s))

LowerChar(c) == CASE c = "D" -> "d" [] c = "I" -> "i" [] OTHER -> c
\* str.lower()
Lower(s) == [i \in 1..Len(s) |-> LowerChar(s[i])]

\* ---------------------------------------------------------------- store
\* A row: (id, title, pos, created_date, notes, archived)
Row(id, title, pos, created_date, notes, archived) ==
    [id |-> id, title |-> title, pos |-> pos, created_date |-> created_date,
     notes |-> notes, archived |-> archived]

SetMax(S) == CHOOSE m \in S : \A x \in S : x <= m

\* SELECT MAX(pos) FROM ideas  (None on an empty table)
MaxPos(conn) == IF conn = {} THEN None ELSE Some(SetMax({r.pos : r \in conn}))

\* Variant: "0 if not max_pos" also takes a maximum of 0 for an empty table.
add_idea_falsy(conn, id, date, title, notes) ==
    LET max_pos == MaxPos(conn)
        new_pos == IF max_pos = None \/ Val(max_pos) = 0 THEN 0 ELSE Val(max_pos) + 1
    IN  conn \cup {Row(id, title, new_pos, date, notes, 0)}

\* Variant: the new row is numbered by COUNT(*) instead of MAX(pos) + 1.
add_idea_count(conn, id, date, title, notes) ==
    conn \cup {Row(id, title, Cardinality(conn), date, notes, 0)}

add_idea(conn, id, date, title, notes) ==
    LET max_pos == MaxPos(conn)
        new_pos == IF max_pos = None THEN 0 ELSE Val(max_pos) + 1
    IN  conn \cup {Row(id, title, new_pos, date, notes, 0)}

\* Variant: the rows after the deleted one are moved up to close the gap.
delete_idea_renumber(conn, idea_id) ==
    LET gone == {r \in conn : r.id = idea_id}
    IN  {IF \E g \in gone : r.pos > g.pos THEN [r EXCEPT !.pos = r.pos - 1] ELSE r :
            r \in conn \ gone}

delete_idea(conn, idea_id) == {r \in conn : r.id # idea_id}

\* All orders of the rows of S.
RECURSIVE Perms(_)
Perms(S) == IF S = {} THEN {<<>>}
            ELSE UNION {{<<r>> \o p : p \in Perms(S \ {r})} : r \in S}

SortKey(r, order_by) == IF order_by = "created_date" THEN r.created_date ELSE r.pos

\* Variant: no ORDER BY clause, the rows come back in rowid order.
get_ideas_rowid(conn, order_by) ==
    {s \in Perms(conn) : \A i \in 1..(Len(s) - 1) : s[i].id < s[i+1].id}

\* ORDER BY col: rows in nondecreasing col; rows with equal col in any order.
get_ideas(conn, order_by) ==
    {s \in Perms(conn) :
        \A i \in 1..(Len(s) - 1) : SortKey(s[i], order_by) <= SortKey(s[i+1], order_by)}

\* One UPDATE ... SET pos = new_pos WHERE id = idea_id
SetPos(conn, idea_id, new_pos) ==
    {IF r.id = idea_id THEN [r EXCEPT !.pos = new_pos] ELSE r : r \in conn}

\* for new_pos, idea in enumerate(ideas_order): UPDATE; python index n is seq index n+1
RECURSIVE UpdateFrom(_, _, _)
UpdateFrom(conn, ideas_order, n) ==
    IF n >= Len(ideas_order) THEN conn
    ELSE UpdateFrom(SetPos(conn, ideas_order[n + 1].id, n), ideas_order, n + 1)

\* Variant: enumerate(ideas_order, 1), the positions start at 1.
update_idea_order_from1(conn, ideas_order) ==
    {IF \E i \in 1..Len(ideas_order) : ideas_order[i].id = r.id
     THEN [r EXCEPT !.pos = CHOOSE i \in 1..Len(ideas_order) : ideas_order[i].id = r.id]
     ELSE r : r \in conn}

\* Variant: the UPDATEs are never committed.
update_idea_order_nocommit(conn, ideas_order) == conn

update_idea_order(conn, ideas_order) == UpdateFrom(conn, ideas_order, 0)

\* Variant: the key archives but never un-archives.
toggle_idea_archived_set(conn, idea_id, current_archived) ==
    {IF r.id = idea_id THEN [r EXCEPT !.archived = 1] ELSE r : r \in conn}

toggle_idea_archived(conn, idea_id, current_archived) ==
    LET new_archived == IF current_archived # 0 THEN 0 ELSE 1
    IN  {IF r.id = idea_id THEN [r EXCEPT !.archived = new_archived] ELSE r : r \in conn}

update_idea_info(conn, idea_id, title, notes) ==
    {IF r.id = idea_id THEN [r EXCEPT !.title = title, !.notes = notes] ELSE r : r \in conn}

\* ---------------------------------------------------------------- dialog
\* Variant: a blank title is taken as typed, without the fallback.
dialog_template_idea_nofallback(init_title, typed_title, typed_notes, confirm) ==
    IF typed_title = None THEN None
    ELSE IF typed_notes = None THEN None
    ELSE IF confirm \in {"y", "Y"}
         THEN Some(<<Val(typed_title), Strip(Val(typed_notes))>>)
    ELSE None

\* Variant: the confirmation prompt takes every key but ESC for a yes.
dialog_template_idea_anykey(init_title, typed_title, typed_notes, confirm) ==
    IF typed_title = None THEN None
    ELSE LET new_title == IF Strip(Val(typed_title)) = <<>> THEN init_title
                          ELSE Val(typed_title)
         IN  IF typed_notes = None THEN None
             ELSE IF confirm # "ESC" THEN Some(<<new_title, Strip(Val(typed_notes))>>)
             ELSE None

\* The outcomes of dialog_template_idea: None, or Some(<<title, notes>>).
\* typed_title / typed_notes are None when ESC was pressed in that field.
dialog_template_idea(init_title, typed_title, typed_notes, confirm) ==
    IF typed_title = None THEN None
    ELSE LET new_title == IF Strip(Val(typed_title)) = <<>> THEN init_title
                          ELSE Val(typed_title)
         IN  IF typed_notes = None THEN None
             ELSE IF confirm \in {"y", "Y"}
                  THEN Some(<<new_title, Strip(Val(typed_notes))>>)
             ELSE None

\* What the user can do in each field: ESC (None) or a typed string.
OptTitles == {None} \cup {Some(t) : t \in TypedTitles}
OptNotes  == {None} \cup {Some(t) : t \in TypedNotes}

\* Every result a dialog seeded with init_title can return.
DialogResults(init_title) ==
    {dialog_template_idea(init_title, t, n, c) :
        t \in OptTitles, n \in OptNotes, c \in ConfirmKeys}

new_idea_dialog == DialogResults(<<>>)

edit_idea_dialog(init_title) == DialogResults(init_title)

\* ---------------------------------------------------------------- main
dh == 18     \* dialog height

\* Lines 139-142: curses.newwin fails unless dy = (sh - dh) // 2 is >= 0.
DialogFits == (max_y - dh) \div 2 >= 0

\* Lines 341-344: the prompt is written on row curses.LINES - 1 of stdscr,
\* which must be a row of the terminal as it is now.
PromptFits == LINES - 1 < max_y

visible_ideas == (max_y - 2) \div 2
num_ideas     == Len(ideas)

\* python list index i is sequence index i+1
At(l, i) == l[i + 1]
\* Variant: a swap without the tuple assignment, entry j is overwritten first.
Swap_copy(l, i, j) == [l EXCEPT ![j + 1] = l[i + 1]]

Swap(l, i, j) == [l EXCEPT ![i + 1] = l[j + 1], ![j + 1] = l[i + 1]]

\* Lines 256-259
ClampSelection(sel, n) ==
    LET s1 == IF sel >= n THEN n - 1 ELSE sel
    IN  IF s1 < 0 THEN 0 ELSE s1

\* Variant: scrolling down puts the selection on the top row.
AdjustScroll_top(sel, off, visible) ==
    IF sel < off THEN sel
    ELSE IF sel >= off + visible THEN sel
    ELSE off

\* Lines 261-264
AdjustScroll(sel, off, visible) ==
    IF sel < off THEN sel
    ELSE IF sel >= off + visible THEN sel - visible + 1
    ELSE off

\* Lines 239-315: the top of a loop iteration up to its getch(), entered with
\* current_selection = sel, scroll_offset = off, ideas = cur and the values
\* the handler left in store', max_y', current_order', moving_idea_index'
\* and reorder_list'.
LoopTop(sel, off, cur) ==
    IF (max_y' - 2) \div 2 < 1
    THEN /\ pc' = "small"
         /\ ideas' = cur
         /\ current_selection' = sel
         /\ scroll_offset' = off
    ELSE /\ pc' = "getch"
         /\ \E scan \in (IF moving_idea_index' = None
                         THEN get_ideas(store', current_order')
                         ELSE {Val(reorder_list')}) :
              /\ ideas' = scan
              /\ current_selection' = ClampSelection(sel, Len(scan))
              /\ scroll_offset' = AdjustScroll(ClampSelection(sel, Len(scan)), off,
                                               (max_y' - 2) \div 2)

\* Variant: the handlers do not look at the mode.
IdleOnly_always == TRUE

\* "and moving_idea_index is None" of lines 339, 352, 361, 369 and 374
IdleOnly == moving_idea_index = None

\* Variant: space acts in either ordering.
OrderIsManual_always == TRUE

\* Line 383: space acts only in the manual ordering
OrderIsManual == current_order = "pos"

\* The key matched no branch of lines 317-393: nothing is done with it.
NoBranch ==
    /\ UNCHANGED <<store, nextId, today, max_y, LINES, txn, current_order,
                   moving_idea_index, reorder_list>>
    /\ LoopTop(current_selection, scroll_offset, ideas)

\* main is left: by return after line 395, or by an exception.  Its locals
\* are gone (they are given their initial values); the table stays.
LeaveMain(how) ==
    /\ pc' = how
    /\ current_order' = "pos"
    /\ current_selection' = 0
    /\ moving_idea_index' = None
    /\ reorder_list' = None
    /\ scroll_offset' = 0
    /\ ideas' = <<>>
    /\ txn' = None
    /\ UNCHANGED <<store, nextId, today, max_y, LINES>>

\* Lines 216-236 and the first pass through lines 239-315 on an empty table.
Init ==
    /\ store = {}
    /\ nextId = 1
    /\ today = 1
    /\ max_y \in StartHeights
    /\ LINES = max_y
    /\ current_order = "pos"
    /\ current_selection = 0
    /\ moving_idea_index = None
    /\ reorder_list = None
    /\ scroll_offset = 0
    /\ ideas = <<>>
    /\ txn = None
    /\ pc = IF visible_ideas < 1 THEN "small" ELSE "getch"

\* Variant: a key on the too-small screen is not dropped, Del still deletes.
SmallKey_dispatch ==
    /\ pc = "small"
    /\ \E k \in Keys :
         IF k = "q"
         THEN LeaveMain("done")
         ELSE /\ IF k = "KEY_RESIZE" THEN max_y' \in Heights ELSE max_y' = max_y
              /\ IF k = "KEY_DC" /\ IdleOnly /\ num_ideas > 0
                 THEN store' = delete_idea(store, At(ideas, current_selection).id)
                 ELSE UNCHANGED store
              /\ UNCHANGED <<nextId, today, LINES, txn, current_order,
                             moving_idea_index, reorder_list>>
              /\ LoopTop(current_selection, scroll_offset, ideas)

\* Lines 246-249: a key on the too-small screen.
SmallKey ==
    /\ pc = "small"
    /\ \E k \in Keys :
         IF k = "q"
         THEN LeaveMain("done")
         ELSE /\ IF k = "KEY_RESIZE" THEN max_y' \in Heights ELSE max_y' = max_y
              /\ UNCHANGED <<store, nextId, today, LINES, txn, current_order,
                             moving_idea_index, reorder_list>>
              /\ LoopTop(current_selection, scroll_offset, ideas)

\* Variant: q in move mode stores the list being reordered before leaving.
KeyQuit_save ==
    /\ pc = "getch"
    /\ pc' = "done"
    /\ store' = IF moving_idea_index = None THEN store
                ELSE update_idea_order(store, Val(reorder_list))
    /\ current_order' = "pos"
    /\ current_selection' = 0
    /\ moving_idea_index' = None
    /\ reorder_list' = None
    /\ scroll_offset' = 0
    /\ ideas' = <<>>
    /\ txn' = None
    /\ UNCHANGED <<nextId, today, max_y, LINES>>

\* Lines 317-318, 395
KeyQuit ==
    /\ pc = "getch"
    /\ LeaveMain("done")

\* Lines 319-320: the terminal was resized
KeyResize ==
    /\ pc = "getch"
    /\ max_y' \in Heights
    /\ UNCHANGED <<store, nextId, today, LINES, txn, current_order,
                   moving_idea_index, reorder_list>>
    /\ LoopTop(current_selection, scroll_offset, ideas)

\* Lines 321-329
KeyUp ==
    /\ pc = "getch"
    /\ UNCHANGED <<store, nextId, today, max_y, LINES, txn, current_order>>
    /\ IF moving_idea_index = None
       THEN /\ UNCHANGED <<moving_idea_index, reorder_list>>
            /\ LoopTop(Max(0, current_selection - 1), scroll_offset, ideas)
       ELSE IF Val(moving_idea_index) > 0
            THEN LET m == Val(moving_idea_index)
                     l == Swap(Val(reorder_list), m, m - 1)
                 IN  /\ reorder_list' = Some(l)
                     /\ moving_idea_index' = Some(m - 1)
                     /\ LoopTop(m - 1, scroll_offset, l)
            ELSE /\ UNCHANGED <<moving_idea_index, reorder_list>>
                 /\ LoopTop(current_selection, scroll_offset, ideas)

\* Lines 330-338
KeyDown ==
    /\ pc = "getch"
    /\ UNCHANGED <<store, nextId, today, max_y, LINES, txn, current_order>>
    /\ IF moving_idea_index = None
       THEN /\ UNCHANGED <<moving_idea_index, reorder_list>>
            /\ LoopTop(Min(num_ideas - 1, current_selection + 1), scroll_offset, ideas)
       ELSE IF Val(moving_idea_index) < num_ideas - 1
            THEN LET m == Val(moving_idea_index)
                     l == Swap(Val(reorder_list), m, m + 1)
                 IN  /\ reorder_list' = Some(l)
                     /\ moving_idea_index' = Some(m + 1)
                     /\ LoopTop(m + 1, scroll_offset, l)
            ELSE /\ UNCHANGED <<moving_idea_index, reorder_list>>
                 /\ LoopTop(current_selection, scroll_offset, ideas)

\* Variant: choosing an ordering also stores the displayed order as positions.
KeyOrder_persist ==
    /\ pc = "getch"
    /\ IF ~IdleOnly THEN NoBranch
       ELSE IF ~PromptFits THEN LeaveMain("crashed")
       ELSE /\ \E typed \in TypedOrders :
                 LET order_choice == Lower(Strip(typed))
                 IN  current_order' = IF order_choice = <<"i">> THEN "pos"
                                      ELSE IF order_choice = <<"d">> THEN "created_date"
                                      ELSE current_order
            /\ store' = update_idea_order(store, ideas)
            /\ UNCHANGED <<nextId, today, max_y, LINES, txn, moving_idea_index, reorder_list>>
            /\ LoopTop(0, 0, ideas)

\* Lines 339-351
KeyOrder ==
    /\ pc = "getch"
    /\ IF ~IdleOnly THEN NoBranch
       ELSE IF ~PromptFits THEN LeaveMain("crashed")
       ELSE /\ \E typed \in TypedOrders :
                 LET order_choice == Lower(Strip(typed))
                 IN  current_order' = IF order_choice = <<"i">> THEN "pos"
                                      ELSE IF order_choice = <<"d">> THEN "created_date"
                                      ELSE current_order
            /\ UNCHANGED <<store, nextId, today, max_y, LINES, txn,
                           moving_idea_index, reorder_list>>
            /\ LoopTop(0, 0, ideas)

\* Lines 352-360
KeyAdd ==
    /\ pc = "getch"
    /\ IF ~IdleOnly
       THEN NoBranch
       ELSE IF ~DialogFits THEN LeaveMain("crashed")
       ELSE
           /\ UNCHANGED <<today, max_y, LINES, txn, current_order,
                          moving_idea_index, reorder_list>>
           /\ \E new_idea \in new_idea_dialog :
                    IF new_idea # None
                    THEN /\ nextId <= MaxId
                         /\ store' = add_idea(store, nextId, today,
                                              Val(new_idea)[1], Val(new_idea)[2])
                         /\ nextId' = nextId + 1
                         /\ \E scan \in get_ideas(store', current_order) :
                              LET sel == Len(scan) - 1
                              IN  LoopTop(sel,
                                          IF sel >= scroll_offset + visible_ideas
                                          THEN sel - visible_ideas + 1
                                          ELSE scroll_offset,
                                          scan)
                    ELSE /\ UNCHANGED <<store, nextId>>
                         /\ LoopTop(current_selection, scroll_offset, ideas)

\* Lines 361-368
KeyDelete ==
    /\ pc = "getch"
    /\ IF ~IdleOnly
       THEN NoBranch
       ELSE
           /\ UNCHANGED <<nextId, today, max_y, LINES, txn, current_order,
                          moving_idea_index, reorder_list>>
           /\ IF num_ideas > 0
              THEN LET idea_id == At(ideas, current_selection).id
                   IN  /\ store' = delete_idea(store, idea_id)
                       /\ \E scan \in get_ideas(store', current_order) :
                            LoopTop(IF current_selection >= Len(scan)
                                    THEN Max(0, Len(scan) - 1)
                                    ELSE current_selection,
                                    0, scan)
              ELSE /\ UNCHANGED store
                   /\ LoopTop(current_selection, scroll_offset, ideas)

\* Lines 369-373
KeyArchive ==
    /\ pc = "getch"
    /\ IF ~IdleOnly
       THEN NoBranch
       ELSE
           /\ UNCHANGED <<nextId, today, max_y, LINES, txn, current_order,
                          moving_idea_index, reorder_list>>
           /\ IF num_ideas > 0
              THEN LET idea == At(ideas, current_selection)
                   IN  store' = toggle_idea_archived(store, idea.id, idea.archived)
              ELSE UNCHANGED store
           /\ LoopTop(current_selection, scroll_offset, ideas)

\* Lines 374-381
KeyEdit ==
    /\ pc = "getch"
    /\ IF ~IdleOnly
       THEN NoBranch
       ELSE IF num_ideas > 0 /\ ~DialogFits THEN LeaveMain("crashed")
       ELSE
           /\ UNCHANGED <<nextId, today, max_y, LINES, txn, current_order,
                          moving_idea_index, reorder_list>>
           /\ IF num_ideas > 0
              THEN LET idea == At(ideas, current_selection)
                   IN  \E edited \in edit_idea_dialog(idea.title) :
                         IF edited # None
                         THEN store' = update_idea_info(store, idea.id,
                                                        Val(edited)[1], Val(edited)[2])
                         ELSE UNCHANGED store
              ELSE UNCHANGED store
           /\ LoopTop(current_selection, scroll_offset, ideas)

\* Variant: the move starts at the top of the list, not at the selection.
KeySpace_first ==
    /\ pc = "getch"
    /\ UNCHANGED <<nextId, today, max_y, LINES, txn, current_order>>
    /\ IF ~OrderIsManual
       THEN /\ UNCHANGED <<store, moving_idea_index, reorder_list>>
            /\ LoopTop(current_selection, scroll_offset, ideas)
       ELSE IF moving_idea_index = None
            THEN /\ \E scan \in get_ideas(store, current_order) :
                      reorder_list' = Some(scan)
                 /\ moving_idea_index' = Some(0)
                 /\ UNCHANGED store
                 /\ LoopTop(0, scroll_offset, ideas)
            ELSE /\ store' = update_idea_order(store, Val(reorder_list))
                 /\ moving_idea_index' = None
                 /\ reorder_list' = None
                 /\ LoopTop(Val(moving_idea_index), scroll_offset, ideas)

\* Lines 382-393
KeySpace ==
    /\ pc = "getch"
    /\ UNCHANGED <<nextId, today, max_y, LINES, txn, current_order>>
    /\ IF ~OrderIsManual
       THEN /\ UNCHANGED <<store, moving_idea_index, reorder_list>>
            /\ LoopTop(current_selection, scroll_offset, ideas)
       ELSE IF moving_idea_index = None
            THEN /\ \E scan \in get_ideas(store, current_order) :
                      reorder_list' = Some(scan)
                 /\ moving_idea_index' = Some(current_selection)
                 /\ UNCHANGED store
                 /\ LoopTop(current_selection, scroll_offset, ideas)
            ELSE /\ store' = update_idea_order(store, Val(reorder_list))
                 /\ moving_idea_index' = None
                 /\ reorder_list' = None
                 /\ LoopTop(Val(moving_idea_index), scroll_offset, ideas)

\* Lines 317-393: a key that is bound to nothing
KeyOther ==
    /\ pc = "getch"
    /\ NoBranch

\* Line 39: the calendar day changes while the program waits for a key.
Midnight ==
    /\ pc \in {"getch", "small"}
    /\ today < MaxDay
    /\ today' = today + 1
    /\ UNCHANGED <<store, nextId, max_y, LINES, txn, current_order, current_selection,
                   moving_idea_index, reorder_list, scroll_offset, ideas, pc>>

Next ==
    \/ SmallKey
    \/ KeyQuit
    \/ KeyResize
    \/ KeyUp
    \/ KeyDown
    \/ KeyOrder
    \/ KeyAdd
    \/ KeyDelete
    \/ KeyArchive
    \/ KeyEdit
    \/ KeySpace
    \/ KeyOther
    \/ Midnight

Spec == Init /\ [][Next]_vars

\* ------------------------------------------------- update_idea_order, by step
\* The confirmation of a move taken one statement at a time, with the
\* process liable to be killed between any two.  store is the table as it is
\* on disk; the UPDATEs of update_idea_order run in one sqlite3 transaction,
\* opened before the first of them and seen by conn only, and the commit
\* puts them on disk together.  A transaction left open by a dead process is
\* rolled back.

\* Lines 386-388: space in the idle mode
Activate ==
    /\ moving_idea_index = None
    /\ KeySpace

\* Lines 390, 74: space in move mode calls update_idea_order
UpdateBegin ==
    /\ pc = "getch"
    /\ OrderIsManual
    /\ moving_idea_index # None
    /\ pc' = "updating"
    /\ txn' = Some([conn |-> store, n |-> 0])
    /\ UNCHANGED <<store, nextId, today, max_y, LINES, current_order,
                   current_selection, moving_idea_index, reorder_list,
                   scroll_offset, ideas>>

\* Variant: every UPDATE is committed as it is made.
UpdateOne_commit ==
    /\ pc = "updating"
    /\ Val(txn).n < Len(Val(reorder_list))
    /\ LET t == Val(txn)
           c == SetPos(t.conn, Val(reorder_list)[t.n + 1].id, t.n)
       IN  /\ txn' = Some([conn |-> c, n |-> t.n + 1])
           /\ store' = c
    /\ UNCHANGED <<nextId, today, max_y, LINES, current_order,
                   current_selection, moving_idea_index, reorder_list,
                   scroll_offset, ideas, pc>>

\* Lines 75-77: one turn of the loop, one UPDATE
UpdateOne ==
    /\ pc = "updating"
    /\ Val(txn).n < Len(Val(reorder_list))
    /\ LET t == Val(txn)
       IN  txn' = Some([conn |-> SetPos(t.conn, Val(reorder_list)[t.n + 1].id, t.n),
                        n |-> t.n + 1])
    /\ UNCHANGED <<store, nextId, today, max_y, LINES, current_order,
                   current_selection, moving_idea_index, reorder_list,
                   scroll_offset, ideas, pc>>

\* Line 78 and lines 391-393: the commit, and the rest of the handler
UpdateCommit ==
    /\ pc = "updating"
    /\ Val(txn).n >= Len(Val(reorder_list))
    /\ store' = Val(txn).conn
    /\ txn' = None
    /\ moving_idea_index' = None
    /\ reorder_list' = None
    /\ UNCHANGED <<nextId, today, max_y, LINES, current_order>>
    /\ LoopTop(Val(moving_idea_index), scroll_offset, ideas)

\* The process is killed: what was not committed is lost.
Kill ==
    /\ pc \in {"getch", "small", "updating"}
    /\ LeaveMain("killed")

NextTx ==
    \/ KeyAdd
    \/ KeyDelete
    \/ KeyUp
    \/ KeyDown
    \/ Activate
    \/ UpdateBegin
    \/ UpdateOne
    \/ UpdateCommit
    \/ Kill

SpecTx == Init /\ [][NextTx]_vars

\* ---------------------------------------------------------------- properties
Moving == moving_idea_index # None

IdsOf(l) == [i \in 1..Len(l) |-> l[i].id]

PosOf(r)  == r.pos
DateOf(r) == r.created_date

\* The id sequences that list every row of conn in nondecreasing K.
Orders(conn, K(_)) ==
    {IdsOf(p) : p \in {q \in Perms(conn) :
                          \A i \in 1..(Len(q) - 1) : K(q[i]) <= K(q[i+1])}}

ByPosition(conn) == Orders(conn, PosOf)
ByDate(conn)     == Orders(conn, DateOf)

Positions(conn) == {r.pos : r \in conn}

\* A step that confirms a move / that enters move mode.
ConfirmStep  == pc = "getch" /\ Moving /\ moving_idea_index' = None /\ pc' = "getch"
ActivateStep == pc = "getch" /\ ~Moving /\ moving_idea_index' # None

\* C1: a confirmed move leaves the table, read by position, in exactly the
\* order of the list being reordered at the time of the confirmation, and
\* the positions of its rows are 0..N-1 in that order.
C1_ConfirmPersistsSnapshot ==
    [][ConfirmStep =>
         LET snap == Val(reorder_list)
         IN  /\ ByPosition(store') = {IdsOf(snap)}
             /\ Cardinality(store') = Len(snap)
             /\ \A i \in 1..Len(snap) :
                  \E r \in store' : r.id = snap[i].id /\ r.pos = i - 1]_vars

\* Three rows, numbered 0..2, whose position order is not their id order:
\* a move with swaps has been confirmed.
C1_Witness ==
    /\ pc = "getch" /\ ~Moving
    /\ Cardinality(store) = 3
    /\ Positions(store) = 0..2
    /\ \E a, b \in store : a.id < b.id /\ a.pos > b.pos

\* C2: no two rows of the table have the same position.
C2_PositionsUnique ==
    \A a, b \in store : a.pos = b.pos => a = b

\* A table that has seen adds, a delete, an edit, an archive toggle, a
\* confirmed move and a change of ordering.
C2_Witness ==
    /\ pc = "getch" /\ ~Moving
    /\ nextId = 4 /\ Cardinality(store) = 2
    /\ current_order = "created_date"
    /\ \E a, b \in store : /\ a.id < b.id /\ a.pos > b.pos
                           /\ a.archived = 1 /\ b.title = <<"b">>

\* C3: every insert adds exactly one row, with the next id, archived = 0,
\* today's date and position = (largest stored position) + 1, or 0 when the
\* table is empty.
C3_InsertAppends ==
    [][(nextId' # nextId \/ Cardinality(store') > Cardinality(store)) =>
         \E r \in store' :
            /\ r \notin store
            /\ store' = store \cup {r}
            /\ nextId' = nextId + 1
            /\ r.id = nextId
            /\ r.archived = 0
            /\ r.created_date = today
            /\ r.pos = IF store = {} THEN 0
                       ELSE (CHOOSE m \in Positions(store) :
                                \A x \in Positions(store) : x <= m) + 1]_vars

\* The third insert came after the first row was deleted: rows 2 and 3 sit
\* at positions 1 and 2.
C3_Witness ==
    /\ nextId = 4
    /\ {<<r.id, r.pos, r.archived>> : r \in store} = {<<2, 1, 0>>, <<3, 2, 0>>}

\* C4 as claimed: every step that leaves move mode, or ends the loop in move
\* mode, has stored the order of the list being reordered.
C4_MovingLeftOnlyPersisted ==
    [][(Moving /\ (moving_idea_index' = None \/ pc' = "done")) =>
         ByPosition(store') = {IdsOf(Val(reorder_list))}]_vars

\* C4 as amended: from move mode, a step either stays in move mode and
\* leaves the table as it is, or is quit, which ends the loop and leaves
\* the table as it is, or is the confirmation, which returns to the idle
\* mode with the loop still running and the order of the list being
\* reordered stored.
C4_MovingLeftByConfirmOrQuit ==
    [][Moving =>
         \/ moving_idea_index' # None /\ store' = store
         \/ pc' = "done" /\ store' = store
         \/ /\ pc = "getch" /\ pc' = "getch"
            /\ moving_idea_index' = None
            /\ ByPosition(store') = {IdsOf(Val(reorder_list))}]_vars

\* Move mode with swaps made and not stored, on a terminal shrunk too small
\* to list anything: of the keys, only q and a resize are looked at.
C4_Witness ==
    /\ pc = "small" /\ Moving
    /\ Len(Val(reorder_list)) = 3
    /\ IdsOf(Val(reorder_list)) \notin ByPosition(store)

\* C5: space in the idle mode while the list is ordered by date changes
\* neither the mode, the table, the selection, the scroll offset nor the
\* ordering; move mode is entered only from the manual ordering.
C5_SpaceRejectedByDate ==
    [][/\ (pc = "getch" /\ ~Moving /\ current_order = "created_date" /\ KeySpace) =>
            /\ moving_idea_index' = None /\ reorder_list' = None
            /\ UNCHANGED <<store, current_selection, scroll_offset, current_order>>
       /\ ActivateStep => current_order = "pos" /\ current_order' = "pos"]_vars

\* The program waits for a key, idle, with two or more ideas listed by date.
C5_Witness ==
    /\ pc = "getch" /\ ~Moving
    /\ current_order = "created_date"
    /\ Len(ideas) >= 2

\* C6: in move mode the keys a, Del, d, e and o change nothing.
C6_MovingIgnoresEdits ==
    [][(pc = "getch" /\ Moving
          /\ (KeyAdd \/ KeyDelete \/ KeyArchive \/ KeyEdit \/ KeyOrder)) =>
         /\ UNCHANGED <<store, reorder_list, moving_idea_index, current_selection,
                        scroll_offset, current_order>>
         /\ moving_idea_index' # None
         /\ pc' = "getch"]_vars

\* The program waits for a key in move mode, with swaps made and not stored.
C6_Witness ==
    /\ pc = "getch" /\ Moving
    /\ Len(Val(reorder_list)) >= 2
    /\ IdsOf(Val(reorder_list)) \notin ByPosition(store)

\* C7: entering move mode copies the by-position order of the table and
\* writes nothing; no step of move mode other than up, down and the
\* confirmation touches the copy or the table; and a confirmation whose list
\* is still in the by-position order of the table leaves that order as it
\* was, gaps in the positions or not.
C7_EnterConfirmIdentity ==
    [][/\ ActivateStep =>
            /\ store' = store
            /\ IdsOf(Val(reorder_list')) \in ByPosition(store)
       /\ (Moving /\ moving_idea_index' # None /\ ~(KeyUp \/ KeyDown)) =>
            UNCHANGED <<store, reorder_list>>
       /\ (ConfirmStep /\ IdsOf(Val(reorder_list)) \in ByPosition(store)) =>
            ByPosition(store') = ByPosition(store)]_vars

\* Move mode has just been entered on a table whose positions have a gap.
C7_Witness ==
    /\ pc = "getch" /\ Moving
    /\ Len(Val(reorder_list)) >= 2
    /\ IdsOf(Val(reorder_list)) \in ByPosition(store)
    /\ Positions(store) # 0..(Cardinality(store) - 1)

\* C8: Del in the idle mode on a non-empty list removes the row shown at the
\* selection and nothing else; every other row keeps all its fields, its
\* position included.  No other step removes a row.
C8_DeleteRemovesOnlySelected ==
    [][(\/ Cardinality(store') < Cardinality(store)
        \/ pc = "getch" /\ ~Moving /\ num_ideas > 0 /\ KeyDelete) =>
         /\ pc = "getch" /\ ~Moving
         /\ current_selection \in 0..(num_ideas - 1)
         /\ At(ideas, current_selection) \in store
         /\ store' = store \ {At(ideas, current_selection)}]_vars

\* The middle one of three rows has been deleted: positions 0 and 2 remain.
C8_Witness ==
    /\ pc = "getch" /\ ~Moving
    /\ Cardinality(store) = 2
    /\ Positions(store) = {0, 2}

\* C9: d in the idle mode on a non-empty list flips the archived flag of the
\* selected row and changes nothing else in the table, so neither the
\* positions nor the order by position or by date; toggling the same row
\* again gives back the table as it was.
C9_ToggleFlipsOnlyArchived ==
    [][(pc = "getch" /\ ~Moving /\ num_ideas > 0 /\ KeyArchive) =>
         LET r  == At(ideas, current_selection)
             r2 == [r EXCEPT !.archived = 1 - r.archived]
         IN  /\ r \in store
             /\ store' = (store \ {r}) \cup {r2}
             /\ toggle_idea_archived(store', r2.id, r2.archived) = store
             /\ ByPosition(store') = ByPosition(store)
             /\ ByDate(store') = ByDate(store)]_vars

\* One idea is archived, after a toggle, and another is not.
C9_Witness ==
    /\ pc = "getch" /\ ~Moving
    /\ \E a, b \in store : a.archived = 1 /\ b.archived = 0

\* C10: choosing an ordering writes nothing to the table, so after going to
\* the date ordering and back the list shown is the by-position order of
\* the same table.
C10_OrderChangeWritesNothing ==
    [][(pc = "getch" /\ ~Moving /\ KeyOrder) =>
         /\ store' = store
         /\ ByPosition(store') = ByPosition(store)
         /\ (pc' = "getch" /\ current_order' = "pos") =>
                IdsOf(ideas') \in ByPosition(store)]_vars

\* The list is shown by date, and no by-date order of the table is its
\* by-position order.
C10_Witness ==
    /\ pc = "getch" /\ ~Moving
    /\ current_order = "created_date"
    /\ Cardinality(store) >= 2
    /\ ByDate(store) \cap ByPosition(store) = {}

\* C11 as claimed, the ranges read as [0, max(0, count-1)] and
\* [0, max(0, count-visible)] so that an empty or short list is allowed: on
\* every frame drawn the selection and the scroll offset are within them.
C11_SelectionAndScrollInRange ==
    pc = "getch" =>
        /\ current_selection \in 0..Max(0, num_ideas - 1)
        /\ scroll_offset \in 0..Max(0, num_ideas - visible_ideas)

\* A step whose handler sets scroll_offset to 0 (lines 351 and 368).
ResetsScroll ==
    /\ pc = "getch" /\ ~Moving
    /\ (num_ideas > 0 /\ KeyDelete) \/ (PromptFits /\ KeyOrder)

\* The offset new is what a frame of visible rows makes of offset base when
\* the selection is sel: sel is inside the window, the offset is kept when
\* sel was inside already, and no offset nearer to base shows sel.
NearestWindow(base, sel, visible, new) ==
    /\ new <= sel /\ sel < new + visible
    /\ (base <= sel /\ sel < base + visible) => new = base
    /\ \A o \in 0..(MaxId + 1) :
         (o <= sel /\ sel < o + visible) =>
             (IF o >= base THEN o - base ELSE base - o) >=
             (IF new >= base THEN new - base ELSE base - new)

\* C12: on every frame drawn the selection is inside the scroll window, and
\* the frame moved the offset it was handed only when the selection was
\* outside the window, and then to the nearest offset that shows it.
C12_SelectionInWindow ==
    /\ pc = "getch" =>
          /\ scroll_offset <= current_selection
          /\ current_selection < scroll_offset + visible_ideas
    /\ [][pc' = "getch" =>
            LET visible == (max_y' - 2) \div 2
            IN  \/ NearestWindow(scroll_offset, current_selection', visible,
                                 scroll_offset')
                \/ /\ ResetsScroll
                   /\ NearestWindow(0, current_selection', visible, scroll_offset')]_vars

\* Two rows are visible, the list is scrolled by one and the selection is on
\* the lower row: the frame has scrolled down by just enough.
C12_Witness ==
    /\ pc = "getch"
    /\ visible_ideas = 2 /\ num_ideas = 3
    /\ scroll_offset = 1 /\ current_selection = 2

\* The keys that end the confirmation prompt (lines 203-208).
PromptKeys == {"y", "Y", "n", "N", "ESC"}

\* A row was added, or the title or the notes of a row were changed.
DialogWrite ==
    \/ nextId' # nextId
    \/ \E r \in store, r2 \in store' :
          r2.id = r.id /\ (r2.title # r.title \/ r2.notes # r.notes)

\* C13: an add or edit dialog that ends without a write leaves the table, the
\* selection, the scroll offset and the ordering as they were, with the
\* program idle and waiting for the next key; and a title or notes are
\* written only from the idle mode, by a dialog that returns a result only
\* when both fields were entered and the prompt was answered y.
C13_CancelledDialogChangesNothing ==
    [][/\ (pc = "getch" /\ ~Moving /\ DialogFits /\ store' = store) =>
            \/ UNCHANGED <<nextId, current_selection, scroll_offset, current_order,
                           moving_idea_index, reorder_list, pc>>
            \/ ~(KeyAdd \/ (num_ideas > 0 /\ KeyEdit))
       /\ (store' # store /\ DialogWrite) =>
            /\ pc = "getch" /\ ~Moving /\ DialogFits
            /\ \A init \in {<<>>} \cup {r.title : r \in store} :
                 \A t \in OptTitles, n \in OptNotes, c \in PromptKeys :
                    dialog_template_idea(init, t, n, c) # None =>
                        t # None /\ n # None /\ c \in {"y", "Y"}]_vars

\* The program is idle on a terminal where the dialog fits, the list is by
\* date and the second of its ideas is selected.
C13_Witness ==
    /\ pc = "getch" /\ ~Moving /\ DialogFits
    /\ current_order = "created_date"
    /\ num_ideas >= 2 /\ current_selection = 1

\* C14: on the too-small screen a key either ends the loop (q), the table
\* untouched, or leaves the table, the ordering, the selection, the list
\* being reordered and the index being moved as they are; the scroll offset
\* changes only in the frame drawn once rows are visible again; and the
\* screen is the too-small one exactly while no row is visible.
C14_TooSmallAcceptsOnlyQuit ==
    /\ [](pc = "small" <=> (visible_ideas < 1 /\ pc \in {"small", "getch"}))
    /\ [][pc = "small" =>
            \/ today' # today /\ pc' = pc
            \/ pc' = "done" /\ store' = store
            \/ /\ pc' \in {"small", "getch"}
               /\ (pc' = "small") = ((max_y' - 2) \div 2 < 1)
               /\ UNCHANGED <<store, nextId, current_order, current_selection,
                              moving_idea_index, reorder_list>>
               /\ pc' = "small" => UNCHANGED scroll_offset
               /\ pc' = "getch" =>
                     NearestWindow(scroll_offset, current_selection,
                                   (max_y' - 2) \div 2, scroll_offset')]_vars

\* The too-small screen is shown over an idle list by date whose second idea
\* is selected.
C14_Witness ==
    /\ pc = "small" /\ ~Moving
    /\ current_order = "created_date"
    /\ num_ideas >= 2 /\ current_selection = 1

C16_UpdateOrderAtomic ==
    /\ [](\A a, b \in store : a.id # b.id => a.pos # b.pos)
    /\ [][pc = "updating" =>
            \/ store' = store
            \/ /\ pc' = "getch"
               /\ store' = update_idea_order(store, Val(reorder_list))]_vars

\* Some but not all of the UPDATEs of a confirmation are done: conn sees a
\* position held twice, the table on disk does not.
C16_Witness ==
    /\ pc = "updating"
    /\ Val(txn).n > 0 /\ Val(txn).n < Len(Val(reorder_list))
    /\ \E a, b \in Val(txn).conn : a.id # b.id /\ a.pos = b.pos

\* The strings of at most two characters over a space, a letter and a capital.
ShortStrings ==
    LET Chars == {" ", "n", "D"}
    IN  {<<>>} \cup {<<a>> : a \in Chars} \cup {<<a, b>> : a, b \in Chars}
        \cup {<<" ", a, " ">> : a \in Chars}

\* t is s without its leading and trailing spaces.
IsTrimOf(t, s) ==
    /\ t = <<>> \/ (t[1] # " " /\ t[Len(t)] # " ")
    /\ \E a \in 1..(Len(s) + 1) :
         /\ t = SubSeq(s, a, a + Len(t) - 1)
         /\ \A i \in 1..Len(s) : (i < a \/ i >= a + Len(t)) => s[i] = " "

\* C17: a confirmed dialog returns the typed title, or the title it was
\* seeded with when nothing but spaces was typed, and the notes without
\* their leading and trailing spaces; and an edit leaves each row either as
\* it was or with a typed title that is not blank and with trimmed notes,
\* and touches no other field and no other row.
C17_DialogTitleFallbackNotesStripped ==
    /\ \A init, t, n \in ShortStrings :
         \E res \in {dialog_template_idea(init, Some(t), Some(n), "y")} :
            /\ res # None
            /\ Val(res)[1] = IF \E i \in 1..Len(t) : t[i] # " " THEN t ELSE init
            /\ IsTrimOf(Val(res)[2], n)
    /\ [][(pc = "getch" /\ ~Moving /\ store' # store /\ nextId' = nextId
           /\ Cardinality(store') = Cardinality(store) /\ KeyEdit) =>
            \E r \in store, t \in TypedTitles, n \in TypedNotes :
               /\ r = At(ideas, current_selection)
               /\ \E i \in 1..Len(t) : t[i] # " "
               /\ store' = (store \ {r}) \cup
                              {[r EXCEPT !.title = t, !.notes = Strip(n)]}]_vars

\* Two ideas are listed, idle, where the dialog fits: the one selected has a
\* title, the other none, and both have their notes trimmed.
C17_Witness ==
    /\ pc = "getch" /\ ~Moving /\ DialogFits
    /\ num_ideas = 2
    /\ At(ideas, current_selection).title = <<"b">>
    /\ \E r \in store : r.title = <<>>
    /\ \A r \in store : r.notes = <<"n">>

\* l2 is l with the entries at python indices i and j exchanged.
Exchanged(l2, l, i, j) ==
    /\ Len(l2) = Len(l)
    /\ At(l2, i) = At(l, j) /\ At(l2, j) = At(l, i)
    /\ \A k \in 0..(Len(l) - 1) : (k # i /\ k # j) => At(l2, k) = At(l, k)

\* C18: in move mode on a list of N >= 1 rows, up above index 0 exchanges the
\* moved entry with the one before it and decrements the index, down below
\* index N-1 exchanges it with the one after it and increments the index, up
\* at 0 and down at N-1 change nothing; and all through move mode the index
\* is within 0..N-1 and is the selection.
C18_MoveUpDown ==
    /\ []((Moving /\ pc \in {"getch", "small"} /\ Len(Val(reorder_list)) >= 1) =>
            /\ Val(moving_idea_index) \in 0..(Len(Val(reorder_list)) - 1)
            /\ current_selection = Val(moving_idea_index))
    /\ [][(pc = "getch" /\ Moving /\ Len(Val(reorder_list)) >= 1) =>
            LET m == Val(moving_idea_index)
                l == Val(reorder_list)
            IN  /\ KeyUp =>
                     IF m > 0
                     THEN /\ Exchanged(Val(reorder_list'), l, m, m - 1)
                          /\ moving_idea_index' = Some(m - 1)
                          /\ store' = store
                     ELSE UNCHANGED vars
                /\ KeyDown =>
                     IF m < Len(l) - 1
                     THEN /\ Exchanged(Val(reorder_list'), l, m, m + 1)
                          /\ moving_idea_index' = Some(m + 1)
                          /\ store' = store
                     ELSE UNCHANGED vars]_vars

\* The row stored last has been moved to the top of a list of three.
C18_Witness ==
    /\ pc = "getch" /\ Moving
    /\ Len(Val(reorder_list)) = 3
    /\ moving_idea_index = Some(0)
    /\ \A r \in store : r.pos <= At(Val(reorder_list), 0).pos

\* The list l without its entry at python index i.
Without(l, i) == [k \in 1..(Len(l) - 1) |-> IF k <= i THEN l[k] ELSE l[k + 1]]

\* C19: on a non-empty list, entering move mode takes a list of exactly the
\* stored rows with the selected row at the index being moved; every step
\* of move mode keeps that row at the index being moved and the other rows
\* in their order; all through move mode the list holds each stored row
\* once; and the confirmation leaves the selection on that row in the list
\* read back by position.
C19_MovedRowTracked ==
    /\ []((Moving /\ pc \in {"getch", "small"}) =>
            /\ {Val(reorder_list)[i] : i \in 1..Len(Val(reorder_list))} = store
            /\ Len(Val(reorder_list)) = Cardinality(store))
    /\ [][/\ (ActivateStep /\ num_ideas > 0) =>
                /\ At(Val(reorder_list'), Val(moving_idea_index')) =
                       At(ideas, current_selection)
                /\ IdsOf(Val(reorder_list')) \in ByPosition(store)
          /\ (Moving /\ moving_idea_index' # None /\ Len(Val(reorder_list)) >= 1) =>
                /\ At(Val(reorder_list'), Val(moving_idea_index')) =
                       At(Val(reorder_list), Val(moving_idea_index))
                /\ Without(Val(reorder_list'), Val(moving_idea_index')) =
                       Without(Val(reorder_list), Val(moving_idea_index))
          /\ (ConfirmStep /\ Len(Val(reorder_list)) >= 1) =>
                /\ IdsOf(ideas') \in ByPosition(store')
                /\ At(ideas', current_selection').id =
                       At(Val(reorder_list), Val(moving_idea_index)).id]_vars

\* The row stored first has been moved to the end of a list of three, and
\* the two-row window has followed it.
C19_Witness ==
    /\ pc = "getch" /\ Moving
    /\ visible_ideas = 2
    /\ Len(Val(reorder_list)) = 3
    /\ moving_idea_index = Some(2)
    /\ \A r \in store : r.pos >= At(Val(reorder_list), 2).pos

\* C20: entering move mode and every step of move mode but the
\* confirmation, resize and quit among them, leave the table as it is; so
\* when q ends the loop in move mode the table read by position is in the
\* order it had, whatever the order of the list being reordered.
C20_MoveModeWritesNothing ==
    [][/\ (ActivateStep \/ (Moving /\ ~ConfirmStep)) => store' = store
       /\ (Moving /\ pc' = "done") =>
             /\ ByPosition(store') = ByPosition(store)
             /\ IdsOf(Val(reorder_list)) \notin ByPosition(store) =>
                    IdsOf(Val(reorder_list)) \notin ByPosition(store')]_vars

\* Move mode on a six-row terminal: the row stored last has been moved up
\* by one in a list of three, and nothing of it is stored.
C20_Witness ==
    /\ pc = "getch" /\ Moving
    /\ max_y = 6
    /\ Len(Val(reorder_list)) = 3
    /\ moving_idea_index = Some(1)
    /\ \A r \in store : r.pos <= At(Val(reorder_list), 1).pos
    /\ IdsOf(Val(reorder_list)) \notin ByPosition(store)

\* ---------------------------------------------------------------- typing
TypeOK ==
    /\ nextId \in 1..(MaxId + 1)
    /\ today \in 1..MaxDay
    /\ max_y \in Heights
    /\ LINES \in StartHeights
    /\ current_order \in {"pos", "created_date"}
    /\ current_selection \in -1..MaxId
    /\ scroll_offset \in 0..MaxId
    /\ txn = None \/ pc = "updating"
    /\ pc \in {"getch", "small", "done", "crashed", "updating", "killed"}
    /\ \A r \in store : r.id \in 1..MaxId /\ r.archived \in {0, 1}
    /\ (moving_idea_index = None) <=> (reorder_list = None)

====
